---- MODULE Spec2Model ----
(***************************************************************************)
(* Model of scripts/generate_diagram.py: the outline loader (build_tree),  *)
(* the radial layout (layout_tree, _assign_branch), the three renderers    *)
(* (draw_mind_map, export_markdown, export_ascii) and the driver (main).   *)
(*                                                                         *)
(* Conventions                                                             *)
(*  - A Python str is a sequence of one-character strings.  The box        *)
(*    drawing characters are written by their code points: "U2502" is the  *)
(*    vertical bar, "U251C" the tee, "U2514" the corner, "U2500" the dash. *)
(*  - An optional value (str | None, Path | None) is a sequence of length  *)
(*    at most one: <<>> is None, <<v>> is the value v.                     *)
(*  - A Python float is an exact number q + p*pi with q and p rational     *)
(*    (records [n, d], d > 0, in lowest terms).  Every product and         *)
(*    quotient of the program has a rational operand, so this set is       *)
(*    closed under the program's arithmetic.  Rounding is not modelled.    *)
(*  - OutlineNode objects live in a heap, a sequence of node records; an   *)
(*    object reference is an index into it, and the reference None is 0.   *)
(***************************************************************************)
EXTENDS Integers, Sequences, FiniteSets, TLC

\* ------------------------------------------------------------------ bounds
\* Largest number of nodes of an input document.
MaxNodes == 6
\* Largest number of children of one node of an input document.
MaxChildren == 4

\* ------------------------------------------------------------- arithmetic
Abs(i) == IF i < 0 THEN -i ELSE i

RECURSIVE GCD(_, _)
GCD(a, b) == IF b = 0 THEN a ELSE GCD(b, a % b)

\* The rational n/d in lowest terms with a positive denominator.
Rat(n, d) ==
    LET s == IF d < 0 THEN -1 ELSE 1
        g == GCD(Abs(n), Abs(d))
    IN [n |-> (s * n) \div g, d |-> (s * d) \div g]

RAdd(a, b) == Rat(a.n * b.d + b.n * a.d, a.d * b.d)
RNeg(a) == [n |-> -a.n, d |-> a.d]
RMul(a, b) == Rat(a.n * b.n, a.d * b.d)
RInv(a) == Rat(a.d, a.n)
RSign(a) == IF a.n > 0 THEN 1 ELSE IF a.n < 0 THEN -1 ELSE 0

\* A float: q + p*pi.
Num(q, p) == [q |-> q, p |-> p]
Int2Num(i) == Num(Rat(i, 1), Rat(0, 1))
\* The float literal n/d (0.5 is Frac(1, 2), 1.6 is Frac(16, 10)).
Frac(n, d) == Num(Rat(n, d), Rat(0, 1))
math_pi == Num(Rat(0, 1), Rat(1, 1))
math_tau == Num(Rat(0, 1), Rat(2, 1))

NAdd(x, y) == Num(RAdd(x.q, y.q), RAdd(x.p, y.p))
NNeg(x) == Num(RNeg(x.q), RNeg(x.p))
NSub(x, y) == NAdd(x, NNeg(y))
\* x * y, one of the two being rational.
NMul(x, y) ==
    IF y.p.n = 0 THEN Num(RMul(x.q, y.q), RMul(x.p, y.q))
    ELSE Num(RMul(x.q, y.q), RMul(x.q, y.p))
\* x / y, y a nonzero rational.
NDiv(x, y) == Num(RMul(x.q, RInv(y.q)), RMul(x.p, RInv(y.q)))

\* 3.141 < pi < 3.142
PiLo == Rat(3141, 1000)
PiHi == Rat(3142, 1000)
\* The sign of q + p*pi: 1, 0, -1, or 2 when the bounds on pi do not decide it.
NSign(x) ==
    IF x.p.n = 0 THEN RSign(x.q)
    ELSE LET a == RSign(RAdd(x.q, RMul(x.p, PiLo)))
             b == RSign(RAdd(x.q, RMul(x.p, PiHi)))
         IN IF a = b /\ a # 0 THEN a ELSE 2
NLt(x, y) == NSign(NSub(y, x)) = 1
NLe(x, y) == x = y \/ NLt(x, y)

\* ---------------------------------------------------------------- strings
None == <<>>
Some(v) == <<v>>

SP == " "
NL == "\n"
VBAR == "U2502"
TEE == "U251C"
CORNER == "U2514"
DASH == "U2500"

RECURSIVE Repeat(_, _)
\* s * k
Repeat(s, k) == IF k <= 0 THEN <<>> ELSE s \o Repeat(s, k - 1)

RECURSIVE Join(_, _)
\* sep.join(lines)
Join(sep, lines) ==
    IF lines = <<>> THEN <<>>
    ELSE IF Len(lines) = 1 THEN lines[1]
    ELSE lines[1] \o sep \o Join(sep, Tail(lines))

\* ------------------------------------------------------- input documents
\* The shape of a document is the sequence of the shapes of its children.
RECURSIVE ForestsOf(_, _)
\* The sequences of at most k shapes with m nodes in all.
ForestsOf(m, k) ==
    IF m = 0 THEN { <<>> }
    ELSE IF k = 0 THEN {}
    ELSE UNION { { <<t>> \o f : t \in ForestsOf(j - 1, MaxChildren),
                                f \in ForestsOf(m - j, k - 1) } : j \in 1..m }

Shapes == UNION { ForestsOf(n - 1, MaxChildren) : n \in 1..MaxNodes }

RECURSIVE Size(_)
RECURSIVE SizeAll(_)
Size(shape) == 1 + SizeAll(shape)
SizeAll(shapes) == IF shapes = <<>> THEN 0 ELSE Size(Head(shapes)) + SizeAll(Tail(shapes))

Letters == <<"A", "B", "C", "D", "E", "F", "G", "H", "I", "J", "K", "L">>
Digits == <<"1", "2", "3", "4", "5", "6", "7", "8", "9">>

\* The title of the i-th node of a document in pre-order (the root is node 0).
TitleOf(i) == IF i = 0 THEN <<"R", "o", "o", "t">> ELSE <<Letters[i]>>
CodeText(i) == IF i = 0 THEN <<"0">> ELSE <<"1", ".", Digits[i]>>

\* How a document is filled in: which nodes carry a "code" key ("none", "all",
\* "odd": the nodes of odd index, "empty": as "all", the nodes of even index
\* carrying the empty string), and which node lacks its "title" key ("no",
\* "root", "last": the last node in pre-order).
Schemes == [codes : {"none", "all", "odd", "empty"}, missing : {"no", "root", "last"}]

EmptyObject == [k \in {} |-> <<>>]

RECURSIVE MkDoc(_, _, _, _)
RECURSIVE MkChildren(_, _, _, _)
\* The document of a shape: a JSON object, a function from its keys.  A leaf
\* has no "children" key, except that a leaf whose index is a multiple of 3
\* has an empty list.
MkDoc(shape, i, last, scheme) ==
    LET t == IF (scheme.missing = "root" /\ i = 0) \/ (scheme.missing = "last" /\ i = last)
             THEN EmptyObject ELSE [title |-> TitleOf(i)]
        c == CASE scheme.codes = "none" -> EmptyObject
               [] scheme.codes = "all" -> [code |-> CodeText(i)]
               [] scheme.codes = "odd" ->
                    IF i % 2 = 1 THEN [code |-> CodeText(i)] ELSE EmptyObject
               [] scheme.codes = "empty" ->
                    IF i % 2 = 1 THEN [code |-> CodeText(i)] ELSE [code |-> <<>>]
        k == IF shape = <<>> /\ i % 3 # 0 THEN EmptyObject
             ELSE [children |-> MkChildren(shape, i + 1, last, scheme)]
    IN t @@ c @@ k
MkChildren(shapes, i, last, scheme) ==
    IF shapes = <<>> THEN <<>>
    ELSE <<MkDoc(Head(shapes), i, last, scheme)>>
         \o MkChildren(Tail(shapes), i + Size(Head(shapes)), last, scheme)

Documents == { MkDoc(sh, 0, Size(sh) - 1, sc) : sh \in Shapes, sc \in Schemes }

\* raw.get(key) for a key holding a str.
raw_get(raw, key) == IF key \in DOMAIN raw THEN Some(raw[key]) ELSE None
\* raw.get("children", [])
raw_children(raw) == IF "children" \in DOMAIN raw THEN raw["children"] ELSE <<>>

\* ------------------------------------------------------------ OutlineNode
\* OutlineNode(title=, code=, parent=, depth=): children, angle and radius
\* take their defaults.
OutlineNode(title, code, parent, depth) ==
    [title |-> title, code |-> code, children |-> <<>>, parent |-> parent,
     depth |-> depth, angle |-> Frac(0, 1), radius |-> Frac(0, 1)]

\* A str is true when it is not empty; None is false.
Truthy(code) == code # None /\ code[1] # <<>>

\* label testing "code is not None" instead of the truth of code.
label_code_not_none(node) ==
    IF node.code # None THEN node.code[1] \o <<SP>> \o node.title ELSE node.title

\* OutlineNode.label
label(node) ==
    IF Truthy(node.code) THEN node.code[1] \o <<SP>> \o node.title ELSE node.title

\* OutlineNode.coords: (radius*cos(angle), radius*sin(angle)), kept in polar form.
coords(node) == [radius |-> node.radius, angle |-> node.angle]

\* ------------------------------------------------------------- build_tree
RECURSIVE build_tree(_, _, _, _)
RECURSIVE build_children(_, _, _, _, _)
\* build_tree reading raw.get("title"), so that a missing title is None.
build_tree_title_optional(heap, raw, depth, parent) ==
    LET id == Len(heap) + 1
        title == IF "title" \in DOMAIN raw THEN raw["title"] ELSE <<"N", "o", "n", "e">>
        node == OutlineNode(title, raw_get(raw, "code"), parent, depth)
        r == build_children(Append(heap, node), raw_children(raw), depth + 1, id, <<>>)
    IN [raised |-> FALSE, heap |-> [r.heap EXCEPT ![id].children = r.ids], id |-> id]

\* build_tree(raw, depth, parent) in heap: the new heap and the reference to
\* the node built, or raised = TRUE when raw["title"] raises KeyError.
build_tree(heap, raw, depth, parent) ==
    IF "title" \notin DOMAIN raw THEN [raised |-> TRUE, heap |-> heap, id |-> 0]
    ELSE LET id == Len(heap) + 1
             node == OutlineNode(raw["title"], raw_get(raw, "code"), parent, depth)
             r == build_children(Append(heap, node), raw_children(raw), depth + 1, id, <<>>)
         IN IF r.raised THEN [raised |-> TRUE, heap |-> r.heap, id |-> 0]
            ELSE [raised |-> FALSE,
                  heap |-> [r.heap EXCEPT ![id].children = r.ids],
                  id |-> id]
\* [build_tree(child, depth, node) for child in raws]
build_children(heap, raws, depth, parent, ids) ==
    IF raws = <<>> THEN [raised |-> FALSE, heap |-> heap, ids |-> ids]
    ELSE LET r == build_tree(heap, Head(raws), depth, parent)
         IN IF r.raised THEN [raised |-> TRUE, heap |-> r.heap, ids |-> ids]
            ELSE build_children(r.heap, Tail(raws), depth, parent, Append(ids, r.id))

\* ------------------------------------------------------------ layout_tree
RECURSIVE _assign_branch(_, _, _, _, _, _)
RECURSIVE assign_children(_, _, _, _, _, _, _)

\* child_angles with the step taken over child_count rather than child_count - 1.
child_angles_step_over_count(depth, angle, child_count, spread) ==
    LET local_spread == NDiv(spread, NAdd(Int2Num(depth), Frac(1, 2)))
    IN IF child_count = 1 THEN <<angle>>
       ELSE LET step == NDiv(local_spread, Int2Num(child_count))
            IN [idx \in 1..child_count |->
                  NAdd(NSub(angle, NDiv(local_spread, Int2Num(2))),
                       NMul(step, Int2Num(idx - 1)))]

\* child_angles with the window starting at angle - local_spread.
child_angles_not_centred(depth, angle, child_count, spread) ==
    LET local_spread == NDiv(spread, NAdd(Int2Num(depth), Frac(1, 2)))
    IN IF child_count = 1 THEN <<angle>>
       ELSE LET step == NDiv(local_spread, Int2Num(child_count - 1))
            IN [idx \in 1..child_count |->
                  NAdd(NSub(angle, local_spread), NMul(step, Int2Num(idx - 1)))]

\* child_angles of _assign_branch for a node at depth with child_count >= 1.
child_angles(depth, angle, child_count, spread) ==
    LET local_spread == NDiv(spread, NAdd(Int2Num(depth), Frac(1, 2)))
    IN IF child_count = 1 THEN <<angle>>
       ELSE LET step == NDiv(local_spread, Int2Num(child_count - 1))
            IN [idx \in 1..child_count |->
                  NAdd(NSub(angle, NDiv(local_spread, Int2Num(2))),
                       NMul(step, Int2Num(idx - 1)))]

\* _assign_branch recursing with depth instead of depth + 1.
assign_branch_same_depth(heap, node, depth, angle, radius_step, spread) ==
    LET h1 == [heap EXCEPT ![node].depth = depth,
                           ![node].angle = angle,
                           ![node].radius = NMul(Int2Num(depth), radius_step)]
        child_count == Len(heap[node].children)
    IN IF child_count = 0 THEN h1
       ELSE assign_children(h1, heap[node].children,
                            child_angles(depth, angle, child_count, spread),
                            1, depth, radius_step, spread)

\* _assign_branch with the radius pushed out by the number of children.
assign_branch_radius_by_fanout(heap, node, depth, angle, radius_step, spread) ==
    LET child_count == Len(heap[node].children)
        h1 == [heap EXCEPT ![node].depth = depth,
                           ![node].angle = angle,
                           ![node].radius = NMul(Int2Num(depth + child_count), radius_step)]
    IN IF child_count = 0 THEN h1
       ELSE assign_children(h1, heap[node].children,
                            child_angles(depth, angle, child_count, spread),
                            1, depth + 1, radius_step, spread)

_assign_branch(heap, node, depth, angle, radius_step, spread) ==
    LET h1 == [heap EXCEPT ![node].depth = depth,
                           ![node].angle = angle,
                           ![node].radius = NMul(Int2Num(depth), radius_step)]
        child_count == Len(heap[node].children)
    IN IF child_count = 0 THEN h1
       ELSE assign_children(h1, heap[node].children,
                            child_angles(depth, angle, child_count, spread),
                            1, depth + 1, radius_step, spread)
\* The loop over enumerate(node.children), from position idx on.
assign_children(heap, children, angles, idx, depth, radius_step, spread) ==
    IF idx > Len(children) THEN heap
    ELSE assign_children(
            _assign_branch(heap, children[idx], depth, angles[idx], radius_step, spread),
            children, angles, idx + 1, depth, radius_step, spread)

\* first_level_angle proceeding counter-clockwise.
first_level_angle_ccw(idx, branch_count) ==
    NAdd(NDiv(math_pi, Int2Num(2)),
         NDiv(NMul(math_tau, Int2Num(idx)), Int2Num(branch_count)))

\* The angle layout_tree gives the first-level child of position idx (from 0).
first_level_angle(idx, branch_count) ==
    NSub(NDiv(math_pi, Int2Num(2)),
         NDiv(NMul(math_tau, Int2Num(idx)), Int2Num(branch_count)))

RECURSIVE layout_first_level(_, _, _, _, _)
layout_first_level(heap, first_level, idx, radius_step, spread) ==
    IF idx > Len(first_level) THEN heap
    ELSE layout_first_level(
            _assign_branch(heap, first_level[idx], 1,
                           first_level_angle(idx - 1, Len(first_level)),
                           radius_step, spread),
            first_level, idx + 1, radius_step, spread)

layout_tree(heap, root, radius_step, spread) ==
    LET h1 == [heap EXCEPT ![root].angle = NDiv(math_pi, Int2Num(2)),
                           ![root].radius = Frac(0, 1)]
    IN layout_first_level(h1, heap[root].children, 1, radius_step, spread)

\* ------------------------------------------------------------- iter_nodes
RECURSIVE iter_nodes(_, _)
RECURSIVE iter_all(_, _)
\* The nodes iter_nodes(root) yields, in order.
iter_nodes(heap, root) == <<root>> \o iter_all(heap, heap[root].children)
iter_all(heap, nodes) ==
    IF nodes = <<>> THEN <<>>
    ELSE iter_nodes(heap, Head(nodes)) \o iter_all(heap, Tail(nodes))

\* -------------------------------------------------------- export_markdown
RECURSIVE _walk(_, _, _, _)
RECURSIVE walk_children(_, _, _, _)
\* _walk(node, depth, bucket): the bucket after the call.
_walk(heap, node, depth, bucket) ==
    LET indent == Repeat(<<SP, SP, SP, SP>>, depth)
    IN walk_children(heap, heap[node].children, depth + 1,
                     Append(bucket, indent \o <<"-", SP>> \o label(heap[node])))
walk_children(heap, nodes, depth, bucket) ==
    IF nodes = <<>> THEN bucket
    ELSE walk_children(heap, Tail(nodes), depth, _walk(heap, Head(nodes), depth, bucket))

\* markdown_lines with the root's children walked at depth 1.
markdown_lines_from_depth_one(heap, root) ==
    walk_children(heap, heap[root].children, 1,
                  << <<"#", SP>> \o label(heap[root]), <<>> >>)

\* markdown_lines without the empty line after the heading.
markdown_lines_no_blank(heap, root) ==
    walk_children(heap, heap[root].children, 0,
                  << <<"#", SP>> \o label(heap[root]) >>)

\* The lines export_markdown collects.
markdown_lines(heap, root) ==
    walk_children(heap, heap[root].children, 0,
                  << <<"#", SP>> \o label(heap[root]), <<>> >>)

\* The text export_markdown writes.
export_markdown(heap, root) == Join(<<NL>>, markdown_lines(heap, root)) \o <<NL>>

\* ----------------------------------------------------------- export_ascii
RECURSIVE _walk_ascii(_, _, _, _, _)
RECURSIVE walk_ascii_children(_, _, _, _, _)
\* _walk_ascii continuing the guide below a last sibling too.
walk_ascii_guide_always(heap, node, prefix, is_last, bucket) ==
    LET connector == IF is_last THEN <<CORNER, DASH, DASH>> ELSE <<TEE, DASH, DASH>>
        b1 == Append(bucket, prefix \o connector \o <<SP>> \o label(heap[node]))
        child_prefix == prefix \o <<VBAR, SP, SP, SP>>
    IN IF heap[node].children = <<>> THEN b1
       ELSE walk_ascii_children(heap, heap[node].children, 1, child_prefix, b1)

\* _walk_ascii(node, prefix=, is_last=, bucket=): the bucket after the call.
_walk_ascii(heap, node, prefix, is_last, bucket) ==
    LET connector == IF is_last THEN <<CORNER, DASH, DASH>> ELSE <<TEE, DASH, DASH>>
        b1 == Append(bucket, prefix \o connector \o <<SP>> \o label(heap[node]))
        child_prefix == prefix \o (IF is_last THEN <<SP, SP, SP, SP>>
                                   ELSE <<VBAR, SP, SP, SP>>)
    IN IF heap[node].children = <<>> THEN b1
       ELSE walk_ascii_children(heap, heap[node].children, 1, child_prefix, b1)
\* The loop over enumerate(node.children), from position idx on.
walk_ascii_children(heap, children, idx, child_prefix, bucket) ==
    IF idx > Len(children) THEN bucket
    ELSE walk_ascii_children(heap, children, idx + 1, child_prefix,
            _walk_ascii(heap, children[idx], child_prefix, idx = Len(children), bucket))

RECURSIVE ascii_top_level(_, _, _, _)
\* The loop of export_ascii over enumerate(children), from position idx on.
ascii_top_level(heap, children, idx, lines) ==
    IF idx > Len(children) THEN lines
    ELSE LET l1 == _walk_ascii(heap, children[idx], <<>>, idx = Len(children), lines)
             l2 == IF idx < Len(children) THEN l1 \o << <<VBAR>>, <<>> >> ELSE l1
         IN ascii_top_level(heap, children, idx + 1, l2)

\* The lines export_ascii collects.
ascii_lines(heap, root) ==
    LET children == heap[root].children
        lines == IF children # <<>> THEN <<label(heap[root]), <<VBAR>>>>
                 ELSE <<label(heap[root])>>
    IN ascii_top_level(heap, children, 1, lines)

\* The text export_ascii writes.
export_ascii(heap, root) == Join(<<NL>>, ascii_lines(heap, root)) \o <<NL>>

\* ---------------------------------------------------------- draw_mind_map
\* math.cos(angle) >= 0
CosNonNeg(angle) ==
    \E k \in -2..2 :
        /\ NLe(NMul(math_pi, Frac(4 * k - 1, 2)), angle)
        /\ NLe(angle, NMul(math_pi, Frac(4 * k + 1, 2)))

\* What _draw_node puts on the axes: one scatter marker and one text.
_draw_node(node) ==
    IF node.depth = 0
    THEN [scatter |-> [at |-> coords(node), s |-> 1400, color |-> "#0b3954",
                       alpha |-> Frac(1, 1), zorder |-> 2],
          text |-> [at |-> coords(node), offset |-> Frac(0, 1), s |-> label(node),
                    color |-> "#ffffff", fontsize |-> 18, weight |-> "bold",
                    ha |-> "center", va |-> "center", zorder |-> 3]]
    ELSE LET style == IF node.depth = 1
                      THEN [color |-> "#087e8b", marker_size |-> 220, font_size |-> 13]
                      ELSE IF node.depth = 2
                      THEN [color |-> "#1f487e", marker_size |-> 90, font_size |-> 11]
                      ELSE [color |-> "#475569", marker_size |-> 60, font_size |-> 10]
         IN [scatter |-> [at |-> coords(node), s |-> style.marker_size,
                          color |-> style.color, alpha |-> Frac(95, 100), zorder |-> 2],
             text |-> [at |-> coords(node),
                       offset |-> NAdd(Frac(3, 10), NMul(Frac(8, 100), Int2Num(node.depth))),
                       s |-> label(node), color |-> style.color,
                       fontsize |-> style.font_size,
                       weight |-> IF node.depth <= 2 THEN "bold" ELSE "normal",
                       ha |-> IF CosNonNeg(node.angle) THEN "left" ELSE "right",
                       va |-> "center", zorder |-> 3]]

\* The connector draw_mind_map plots for a node with a parent.
connector_line(heap, node) ==
    [from |-> coords(heap[heap[node].parent]), to |-> coords(heap[node]),
     color |-> "#94a3b8", linewidth |-> Frac(115, 100), zorder |-> 1]

\* The figure draw_mind_map saves.
draw_mind_map(heap, root, dpi) ==
    LET order == iter_nodes(heap, root)
        drawn == SelectSeq(order, LAMBDA n : heap[n].parent # 0)
    IN [figsize |-> <<11, 11>>, axis |-> "off",
        lines |-> [i \in 1..Len(drawn) |-> connector_line(heap, drawn[i])],
        nodes |-> [i \in 1..Len(order) |-> _draw_node(heap[order[i]])],
        dpi |-> dpi, bbox_inches |-> "tight", transparent |-> FALSE]

\* ------------------------------------------------------------------ paths
\* A Path is the sequence of its components.
ROOT == <<"WBS">>
DATA_PATH == ROOT \o <<"data", "outline.json">>
OUTPUT_DIR == ROOT \o <<"output">>
DEFAULT_PDF == OUTPUT_DIR \o <<"secure-clinical-communication.pdf">>
DEFAULT_MD == OUTPUT_DIR \o <<"secure-clinical-communication.md">>
DEFAULT_ASCII == OUTPUT_DIR \o <<"WBS_diagram">>

\* path.parent
path_parent(path) == SubSeq(path, 1, Len(path) - 1)
\* The directories path.mkdir(parents=True, exist_ok=True) leaves in place.
mkdir_parents(path) == { SubSeq(path, 1, k) : k \in 1..Len(path) }
IsUnder(path, base) ==
    Len(path) >= Len(base) /\ SubSeq(path, 1, Len(base)) = base
\* path.relative_to(base), for a path under base.
relative_to(path, base) == SubSeq(path, Len(base) + 1, Len(path))

\* layout_tree's default arguments.
default_radius_step == Frac(16, 10)
default_spread == Frac(16, 10)
\* parse_args' default for --dpi.
default_dpi == 300

\* ------------------------------------------------------------------ state
VARIABLES
    argv,         \* the command line: [output, format, dpi] as parse_args reads it
    data_file,    \* DATA_PATH on disk: [exists, valid, doc]
    pc,           \* the statement of main about to run
    args,         \* main's args, None before parse_args
    outline,      \* main's outline, None before load_outline
    heap,         \* the OutlineNode objects
    root,         \* main's root, 0 before build_tree
    output_path,  \* main's output_path, None before it is resolved
    layout_args,  \* the (radius_step, spread) of the layout_tree call, None before it
    dirs,         \* the directories created
    files,        \* the files written: a function from paths to contents
    stdout,       \* the lines printed
    exc,          \* the exception that ended the run, None if none
    calls         \* the functions main has called, in order

vars == <<argv, data_file, pc, args, outline, heap, root, output_path, layout_args,
          dirs, files, stdout, exc, calls>>

Formats == {"pdf", "markdown", "ascii"}
Outputs == {None, Some(ROOT \o <<"docs", "wbs.out">>), Some(<<"tmp", "wbs.out">>)}
Argvs ==
    [output : Outputs, format : Formats, dpi : {default_dpi}]
    \cup {[output |-> None, format |-> "pdf", dpi |-> 72]}

DataFiles ==
    { [exists |-> TRUE, valid |-> TRUE, doc |-> d] : d \in Documents }
    \cup { [exists |-> FALSE, valid |-> FALSE, doc |-> EmptyObject],
           [exists |-> TRUE, valid |-> FALSE, doc |-> EmptyObject] }

NoFiles == [p \in {} |-> <<>>]

Init ==
    /\ argv \in Argvs
    /\ data_file \in DataFiles
    /\ pc = "parse_args"
    /\ args = None
    /\ outline = None
    /\ heap = <<>>
    /\ root = 0
    /\ output_path = None
    /\ layout_args = None
    /\ dirs = {}
    /\ files = NoFiles
    /\ stdout = <<>>
    /\ exc = None
    /\ calls = <<>>

\* An exception leaves main: the run ends with a traceback and a non-zero status.
Raise(type, where) ==
    /\ pc' = "raised"
    /\ exc' = Some([type |-> type, in |-> where])

\* args = parse_args()
ParseArgs ==
    /\ pc = "parse_args"
    /\ args' = Some(argv)
    /\ calls' = Append(calls, "parse_args")
    /\ pc' = "ensure_output_dir"
    /\ UNCHANGED <<argv, data_file, outline, heap, root, output_path, layout_args,
                   dirs, files, stdout, exc>>

\* ensure_output_dir()
EnsureOutputDir ==
    /\ pc = "ensure_output_dir"
    /\ dirs' = dirs \cup mkdir_parents(OUTPUT_DIR)
    /\ calls' = Append(calls, "ensure_output_dir")
    /\ pc' = "load_outline"
    /\ UNCHANGED <<argv, data_file, args, outline, heap, root, output_path, layout_args,
                   files, stdout, exc>>

\* outline = load_outline()
LoadOutline ==
    /\ pc = "load_outline"
    /\ calls' = Append(calls, "load_outline")
    /\ IF ~data_file.exists
       THEN Raise("FileNotFoundError", "load_outline") /\ UNCHANGED outline
       ELSE IF ~data_file.valid
       THEN Raise("JSONDecodeError", "load_outline") /\ UNCHANGED outline
       ELSE outline' = Some(data_file.doc) /\ pc' = "build_tree" /\ UNCHANGED exc
    /\ UNCHANGED <<argv, data_file, args, heap, root, output_path, layout_args,
                   dirs, files, stdout>>

\* root = build_tree(outline)
BuildTree ==
    /\ pc = "build_tree"
    /\ calls' = Append(calls, "build_tree")
    /\ LET r == build_tree(<<>>, outline[1], 0, 0)
       IN IF r.raised
          THEN Raise("KeyError", "build_tree") /\ UNCHANGED <<heap, root>>
          ELSE heap' = r.heap /\ root' = r.id /\ pc' = "resolve_output" /\ UNCHANGED exc
    /\ UNCHANGED <<argv, data_file, args, outline, output_path, layout_args,
                   dirs, files, stdout>>

\* The default output path of a format.
default_output(format) ==
    IF format = "pdf" THEN DEFAULT_PDF
    ELSE IF format = "markdown" THEN DEFAULT_MD
    ELSE DEFAULT_ASCII

\* output_path = args.output, or the format's default when it is None
ResolveOutput ==
    /\ pc = "resolve_output"
    /\ output_path' = IF args[1].output = None
                      THEN Some(default_output(args[1].format))
                      ELSE args[1].output
    /\ pc' = "mkdir_parent"
    /\ UNCHANGED <<argv, data_file, args, outline, heap, root, layout_args,
                   dirs, files, stdout, exc, calls>>

\* output_path.parent.mkdir(parents=True, exist_ok=True)
MkdirParent ==
    /\ pc = "mkdir_parent"
    /\ dirs' = dirs \cup mkdir_parents(path_parent(output_path[1]))
    /\ pc' = "render"
    /\ UNCHANGED <<argv, data_file, args, outline, heap, root, output_path, layout_args,
                   files, stdout, exc, calls>>

\* layout_tree(root)
LayoutTree ==
    /\ pc = "render"
    /\ args[1].format = "pdf"
    /\ heap' = layout_tree(heap, root, default_radius_step, default_spread)
    /\ layout_args' = Some([radius_step |-> default_radius_step, spread |-> default_spread])
    /\ calls' = Append(calls, "layout_tree")
    /\ pc' = "draw_mind_map"
    /\ UNCHANGED <<argv, data_file, args, outline, root, output_path,
                   dirs, files, stdout, exc>>

\* open(path, "w").write(content)
WriteFile(path, content) == (path :> content) @@ files

\* draw_mind_map(root, output_path, dpi=args.dpi)
DrawMindMap ==
    /\ pc = "draw_mind_map"
    /\ files' = WriteFile(output_path[1],
                          [kind |-> "figure",
                           figure |-> draw_mind_map(heap, root, args[1].dpi)])
    /\ calls' = Append(calls, "draw_mind_map")
    /\ pc' = "report"
    /\ UNCHANGED <<argv, data_file, args, outline, heap, root, output_path, layout_args,
                   dirs, stdout, exc>>

\* export_markdown(root, output_path)
ExportMarkdown ==
    /\ pc = "render"
    /\ args[1].format = "markdown"
    /\ files' = WriteFile(output_path[1],
                          [kind |-> "text", text |-> export_markdown(heap, root)])
    /\ calls' = Append(calls, "export_markdown")
    /\ pc' = "report"
    /\ UNCHANGED <<argv, data_file, args, outline, heap, root, output_path, layout_args,
                   dirs, stdout, exc>>

\* export_ascii(root, output_path)
ExportAscii ==
    /\ pc = "render"
    /\ args[1].format \notin {"pdf", "markdown"}
    /\ files' = WriteFile(output_path[1],
                          [kind |-> "text", text |-> export_ascii(heap, root)])
    /\ calls' = Append(calls, "export_ascii")
    /\ pc' = "report"
    /\ UNCHANGED <<argv, data_file, args, outline, heap, root, output_path, layout_args,
                   dirs, stdout, exc>>

\* rel_path = output_path.relative_to(ROOT), or output_path on ValueError;
\* print(f"Diagram exported to {rel_path}")
Report ==
    /\ pc = "report"
    /\ LET rel_path == IF IsUnder(output_path[1], ROOT)
                       THEN relative_to(output_path[1], ROOT)
                       ELSE output_path[1]
       IN stdout' = Append(stdout, <<"Diagram exported to ", rel_path>>)
    /\ pc' = "done"
    /\ UNCHANGED <<argv, data_file, args, outline, heap, root, output_path, layout_args,
                   dirs, files, exc, calls>>

Next ==
    \/ ParseArgs
    \/ EnsureOutputDir
    \/ LoadOutline
    \/ BuildTree
    \/ ResolveOutput
    \/ MkdirParent
    \/ LayoutTree
    \/ DrawMindMap
    \/ ExportMarkdown
    \/ ExportAscii
    \/ Report

Spec == Init /\ [][Next]_vars

\* ------------------------------------------- the layout, called directly
\* build_tree(document) followed by layout_tree(root, radius_step, spread)
\* for arguments other than main's.
RadiusSteps == {Frac(16, 10), Frac(1, 1), Frac(5, 2), Frac(0, 1), Frac(-1, 2)}
Spreads == {Frac(16, 10), Frac(32, 10), Frac(4, 5)}

InitLayout ==
    /\ argv \in {[output |-> None, format |-> "pdf", dpi |-> default_dpi]}
    /\ data_file \in { f \in DataFiles : f.valid }
    /\ pc = "call_build_tree"
    /\ args = None
    /\ outline = Some(data_file.doc)
    /\ heap = <<>>
    /\ root = 0
    /\ output_path = None
    /\ layout_args = None
    /\ dirs = {}
    /\ files = NoFiles
    /\ stdout = <<>>
    /\ exc = None
    /\ calls = <<>>

\* root = build_tree(document)
CallBuildTree ==
    /\ pc = "call_build_tree"
    /\ calls' = Append(calls, "build_tree")
    /\ LET r == build_tree(<<>>, outline[1], 0, 0)
       IN IF r.raised
          THEN Raise("KeyError", "build_tree") /\ UNCHANGED <<heap, root>>
          ELSE heap' = r.heap /\ root' = r.id /\ pc' = "call_layout_tree" /\ UNCHANGED exc
    /\ UNCHANGED <<argv, data_file, args, outline, output_path, layout_args,
                   dirs, files, stdout>>

\* layout_tree(root, radius_step, spread)
CallLayoutTree ==
    /\ pc = "call_layout_tree"
    /\ \E radius_step \in RadiusSteps, spread \in Spreads :
         /\ heap' = layout_tree(heap, root, radius_step, spread)
         /\ layout_args' = Some([radius_step |-> radius_step, spread |-> spread])
    /\ calls' = Append(calls, "layout_tree")
    /\ pc' = "returned"
    /\ UNCHANGED <<argv, data_file, args, outline, root, output_path,
                   dirs, files, stdout, exc>>

NextLayout ==
    \/ CallBuildTree
    \/ CallLayoutTree

SpecLayout == InitLayout /\ [][NextLayout]_vars

\* ================================================================ claims
\* The nodes of a document in pre-order, children in input order, each with
\* its depth (0 for the document itself).
RECURSIVE DocNodes(_, _)
RECURSIVE DocNodesAll(_, _)
DocNodes(raw, depth) ==
    <<[doc |-> raw, depth |-> depth]>> \o DocNodesAll(raw_children(raw), depth + 1)
DocNodesAll(raws, depth) ==
    IF raws = <<>> THEN <<>>
    ELSE DocNodes(Head(raws), depth) \o DocNodesAll(Tail(raws), depth)

RECURSIVE Flatten(_)
Flatten(ss) == IF ss = <<>> THEN <<>> ELSE Head(ss) \o Flatten(Tail(ss))

Range(f) == { f[i] : i \in DOMAIN f }

Built == root # 0
LaidOut == root # 0 /\ layout_args # None
NonRoot == DOMAIN heap \ {root}
\* The position of node n among its parent's children.
PosInParent(n) ==
    CHOOSE i \in DOMAIN heap[heap[n].parent].children :
        heap[heap[n].parent].children[i] = n

\* C1: in the tree build_tree returns the root has depth 0 and every other
\* node has its parent's depth plus 1, and layout_tree leaves every depth at
\* the value build_tree gave it (the node's depth in the document).
C1_DepthFollowsParent ==
    Built =>
        LET nodes == DocNodes(outline[1], 0)
        IN /\ Len(heap) = Len(nodes)
           /\ heap[root].parent = 0
           /\ heap[root].depth = 0
           /\ \A n \in NonRoot :
                /\ heap[n].parent \in DOMAIN heap
                /\ heap[n].depth = heap[heap[n].parent].depth + 1
           /\ \A n \in DOMAIN heap : heap[n].depth = nodes[n].depth

\* layout_tree has run on a tree with a node three levels below the root.
C1_Witness ==
    /\ LaidOut
    /\ pc = "draw_mind_map"
    /\ \E n \in DOMAIN heap : heap[n].depth = 3

\* C2: after layout_tree(root, radius_step, spread) every node, the root
\* included, has radius depth * radius_step, whatever radius_step is and
\* however many children the node or its siblings have.
C2_RadiusIsDepthTimesStep ==
    LaidOut =>
        \A n \in DOMAIN heap :
            heap[n].radius = NMul(Int2Num(heap[n].depth), layout_args[1].radius_step)

\* layout_tree has run with a radius_step other than the default on a tree
\* where two siblings have different numbers of children.
C2_Witness ==
    /\ LaidOut
    /\ layout_args[1].radius_step # default_radius_step
    /\ \E n, m \in NonRoot :
         /\ heap[n].parent = heap[m].parent
         /\ Len(heap[n].children) = 0
         /\ Len(heap[m].children) >= 2
         /\ heap[n].radius = heap[m].radius
         /\ heap[n].radius # Frac(0, 1)

\* An angle in degrees, for an angle that is a rational multiple of pi.
Degrees(angle) == RMul(angle.p, Rat(180, 1))

\* C3: after layout_tree on a root with N >= 1 first-level children, the i-th
\* of them (from 0, in input order) is at 90 - 360*i/N degrees: the first at
\* 90 degrees, consecutive ones exactly 360/N degrees apart.
C3_FirstLevelAngles ==
    LaidOut =>
        LET first_level == heap[root].children
            N == Len(first_level)
        IN \A k \in 1..N :
             LET a == heap[first_level[k]].angle
             IN /\ a.q = Rat(0, 1)
                /\ Degrees(a) = RAdd(Rat(90, 1), RNeg(Rat(360 * (k - 1), N)))
                /\ k = 1 => Degrees(a) = Rat(90, 1)
                /\ k > 1 =>
                     RAdd(Degrees(heap[first_level[k - 1]].angle), RNeg(Degrees(a)))
                       = Rat(360, N)

\* layout_tree has run on a root with three first-level children.
C3_Witness ==
    /\ LaidOut
    /\ Len(heap[root].children) = 3
    /\ heap[heap[root].children[3]].angle = NMul(math_pi, Frac(-5, 6))

\* C10: after layout_tree, a node at depth d >= 1 with angle a and K
\* children: for K = 1 the child has angle a; for K > 1 the children are
\* evenly spaced by (spread/(d+0.5))/(K-1), from a - spread/(2(d+0.5)) to
\* a + spread/(2(d+0.5)), with mean a; for K = 0 _assign_branch assigns the
\* node alone.
RECURSIVE SumAngles(_, _)
SumAngles(nodes, k) ==
    IF k = 0 THEN Frac(0, 1) ELSE NAdd(SumAngles(nodes, k - 1), heap[nodes[k]].angle)

C10_ChildrenFanOut ==
    LaidOut =>
        \A n \in NonRoot :
            LET d == heap[n].depth
                a == heap[n].angle
                kids == heap[n].children
                K == Len(kids)
                spread == layout_args[1].spread
                half == NDiv(spread, Int2Num(2 * d + 1))
            IN /\ K = 1 => heap[kids[1]].angle = a
               /\ K > 1 =>
                    /\ heap[kids[1]].angle = NSub(a, half)
                    /\ heap[kids[K]].angle = NAdd(a, half)
                    /\ \A i \in 2..K :
                         NSub(heap[kids[i]].angle, heap[kids[i - 1]].angle)
                           = NDiv(NMul(half, Int2Num(2)), Int2Num(K - 1))
                    /\ SumAngles(kids, K) = NMul(a, Int2Num(K))
               /\ K = 0 =>
                    LET h == _assign_branch(heap, n, d, a, layout_args[1].radius_step, spread)
                    IN \A m \in DOMAIN heap \ {n} : h[m] = heap[m]

\* layout_tree has run, with a spread other than the default, on a tree
\* where one node below the root has two children, one has a single child
\* and one has none.
C10_Witness ==
    /\ LaidOut
    /\ layout_args[1].spread # default_spread
    /\ \E n, m, l \in NonRoot :
         /\ Len(heap[n].children) = 2
         /\ Len(heap[m].children) = 1
         /\ Len(heap[l].children) = 0
         /\ heap[heap[n].children[1]].angle # heap[heap[n].children[2]].angle

\* The angular window of a node at depth d >= 1: the interval of width
\* spread/(d + 0.5) centred on the node's angle.
WinHalf(n) == NDiv(layout_args[1].spread, Int2Num(2 * heap[n].depth + 1))
WinLo(n) == NSub(heap[n].angle, WinHalf(n))
WinHi(n) == NAdd(heap[n].angle, WinHalf(n))
StrictlyInside(c, n) == NLt(WinLo(n), WinLo(c)) /\ NLt(WinHi(c), WinHi(n))
Disjoint(n, m) == NLt(WinHi(n), WinLo(m)) \/ NLt(WinHi(m), WinLo(n))
PairwiseDisjoint(nodes) ==
    \A i, j \in DOMAIN nodes : i # j => Disjoint(nodes[i], nodes[j])

\* C4 as stated: after layout_tree every child's window is strictly nested
\* inside its parent's window, and the windows of two distinct siblings
\* (first-level children of the root included) are disjoint.
C4_WindowsNeverOverlap ==
    LaidOut =>
        /\ \A n \in NonRoot :
             \A k \in DOMAIN heap[n].children : StrictlyInside(heap[n].children[k], n)
        /\ \A n \in DOMAIN heap : PairwiseDisjoint(heap[n].children)

\* C4 amended: after layout_tree with a positive spread, a child's angle
\* lies in its parent's window, and an only child's window is strictly
\* nested in its parent's; with K >= 2 children the windows of the first and
\* the last child reach beyond the parent's window.  The windows of the
\* children of a node at depth >= 1 are pairwise disjoint exactly when it
\* has at most 2 children, and those of the N first-level children exactly
\* when N <= 1 or N * spread < 3 * pi.
C4_WindowsAmended ==
    LaidOut =>
        /\ \A n \in NonRoot :
             LET kids == heap[n].children
                 K == Len(kids)
             IN /\ \A k \in 1..K :
                      /\ NLe(WinLo(n), heap[kids[k]].angle)
                      /\ NLe(heap[kids[k]].angle, WinHi(n))
                /\ K = 1 => StrictlyInside(kids[1], n)
                /\ K >= 2 =>
                      /\ NLt(WinLo(kids[1]), WinLo(n))
                      /\ NLt(WinHi(n), WinHi(kids[K]))
                /\ PairwiseDisjoint(kids) <=> K <= 2
        /\ LET first_level == heap[root].children
               N == Len(first_level)
           IN PairwiseDisjoint(first_level)
                <=> (N <= 1 \/ NLt(NMul(Int2Num(N), layout_args[1].spread),
                                   NMul(math_pi, Int2Num(3))))

\* layout_tree has run on a tree where a node below the root has three
\* children: the windows of the first two overlap and the first reaches
\* beyond the parent's window.
C4_Witness ==
    /\ LaidOut
    /\ \E n \in NonRoot :
         /\ Len(heap[n].children) = 3
         /\ ~Disjoint(heap[n].children[1], heap[n].children[2])
         /\ ~StrictlyInside(heap[n].children[1], n)

\* layout_tree has run with spread 3.2 on a root whose three first-level
\* windows overlap.
FirstLevelOverlapReached ==
    /\ LaidOut
    /\ Len(heap[root].children) = 3
    /\ ~PairwiseDisjoint(heap[root].children)

\* Every comparison the window claims make is decided by the bounds on pi.
SignsDecided ==
    LaidOut =>
        \A n, m \in NonRoot :
            /\ NSign(NSub(WinHi(n), WinLo(m))) # 2
            /\ NSign(NSub(WinLo(n), WinLo(m))) # 2
            /\ NSign(NSub(WinHi(n), WinHi(m))) # 2
            /\ NSign(NSub(WinLo(n), heap[m].angle)) # 2
            /\ NSign(NSub(WinHi(n), heap[m].angle)) # 2

\* ------------------------------------------------------ the text outputs
\* The lines of a text: the pieces between line breaks, the last line break
\* ending the last line.
RECURSIVE SplitLines(_)
SplitLines(text) ==
    IF text = <<>> THEN <<>>
    ELSE IF \A i \in DOMAIN text : text[i] # NL THEN <<text>>
    ELSE LET k == CHOOSE i \in DOMAIN text :
                      text[i] = NL /\ \A j \in 1..(i - 1) : text[j] # NL
         IN <<SubSeq(text, 1, k - 1)>> \o SplitLines(SubSeq(text, k + 1, Len(text)))

TextWritten(format) ==
    /\ pc \in {"report", "done"}
    /\ args[1].format = format
    /\ output_path[1] \in DOMAIN files
WrittenText == files[output_path[1]].text
WrittenLines == SplitLines(WrittenText)

\* C5: export_markdown writes '# ' + root label, an empty line, then one line
\* per non-root node in pre-order, children in input order: 4*(depth-1)
\* spaces, '- ' and the node's label.  The root makes no list item.
C5_MarkdownLines ==
    TextWritten("markdown") =>
        LET nodes == DocNodes(outline[1], 0)
        IN /\ WrittenText[Len(WrittenText)] = NL
           /\ WrittenLines =
                << <<"#", SP>> \o label(heap[1]), <<>> >>
                \o [i \in 1..(Len(nodes) - 1) |->
                      Repeat(<<SP>>, 4 * (nodes[i + 1].depth - 1))
                      \o <<"-", SP>> \o label(heap[i + 1])]

\* export_markdown has written a tree with a node three levels below the
\* root and a node with a code.
C5_Witness ==
    /\ TextWritten("markdown")
    /\ \E n \in DOMAIN heap : heap[n].depth = 3
    /\ \E n \in DOMAIN heap : Truthy(heap[n].code)
    /\ Len(WrittenLines) = Len(heap) + 1

\* The input of Scenario 1: {"title": "Root", "children": [{"title": "A"}, {"title": "B"}]}
Scenario1 ==
    [title |-> <<"R", "o", "o", "t">>,
     children |-> << [title |-> <<"A">>], [title |-> <<"B">>] >>]

\* C6 as stated: for the input of Scenario 1 the markdown output is
\* '# Root', an empty line, '    - A' and '    - B', each list item indented
\* by four spaces.
C6_Scenario2Indented ==
    (TextWritten("markdown") /\ outline = Some(Scenario1)) =>
        WrittenLines = << <<"#", SP, "R", "o", "o", "t">>, <<>>,
                          <<SP, SP, SP, SP, "-", SP, "A">>,
                          <<SP, SP, SP, SP, "-", SP, "B">> >>

\* C6 amended: for the input of Scenario 1 the markdown output is '# Root',
\* an empty line, '- A' and '- B': the list items are not indented.
C6_Scenario2Flush ==
    (TextWritten("markdown") /\ outline = Some(Scenario1)) =>
        WrittenLines = << <<"#", SP, "R", "o", "o", "t">>, <<>>,
                          <<"-", SP, "A">>, <<"-", SP, "B">> >>

\* export_markdown has written the input of Scenario 1.
C6_Witness ==
    /\ TextWritten("markdown")
    /\ outline = Some(Scenario1)
    /\ Len(WrittenLines) = 4

\* Whether node n has a following sibling.
HasNext(n) == PosInParent(n) < Len(heap[heap[n].parent].children)
RECURSIVE Guides(_)
\* One 4-character cell per ancestor of n below the root, outermost first.
Guides(n) ==
    LET a == heap[n].parent
    IN IF a = root THEN <<>>
       ELSE Guides(a) \o (IF HasNext(a) THEN <<VBAR, SP, SP, SP>> ELSE <<SP, SP, SP, SP>>)
AsciiLine(n) ==
    Guides(n)
    \o (IF HasNext(n) THEN <<TEE, DASH, DASH>> ELSE <<CORNER, DASH, DASH>>)
    \o <<SP>> \o label(heap[n])

\* C7: export_ascii prints the root label alone, then a vertical bar line
\* when the root has children; each non-root node makes one line: a cell per
\* ancestor below the root (bar and three spaces when the ancestor has a
\* following sibling, four spaces when not), the tee or corner connector, a
\* space, the label.  After each top-level branch but the last come a bar
\* line and an empty line.  Root with childless A and B gives exactly
\* 'Root', bar, tee A, bar, '', corner B.
C7_AsciiLines ==
    TextWritten("ascii") =>
        LET N == Len(heap)
        IN /\ WrittenText[Len(WrittenText)] = NL
           /\ WrittenLines =
                <<label(heap[root])>>
                \o (IF heap[root].children # <<>> THEN << <<VBAR>> >> ELSE <<>>)
                \o Flatten([i \in 1..(N - 1) |->
                      <<AsciiLine(i + 1)>>
                      \o (IF i + 1 < N /\ heap[i + 2].parent = root
                          THEN << <<VBAR>>, <<>> >> ELSE <<>>)])
           /\ outline = Some(Scenario1) =>
                WrittenLines = << <<"R", "o", "o", "t">>, <<VBAR>>,
                                  <<TEE, DASH, DASH, SP, "A">>, <<VBAR>>, <<>>,
                                  <<CORNER, DASH, DASH, SP, "B">> >>

\* export_ascii has written a tree where a last top-level branch has a
\* grandchild (a guide of four spaces) after a first branch with a child.
C7_Witness ==
    /\ TextWritten("ascii")
    /\ Len(heap[root].children) = 2
    /\ \E n \in NonRoot : heap[n].depth = 2 /\ ~HasNext(heap[n].parent)
    /\ \E n \in NonRoot : heap[n].depth = 2 /\ HasNext(heap[n].parent)

\* export_ascii has written the input of Scenario 1.
Scenario1AsciiReached == TextWritten("ascii") /\ outline = Some(Scenario1)

\* The labels of a markdown output: the heading without '# ', the list
\* items without their indentation and '- '.
MdItemLabel(line) ==
    LET k == CHOOSE i \in DOMAIN line : line[i] # SP /\ \A j \in 1..(i - 1) : line[j] = SP
    IN SubSeq(line, k + 2, Len(line))
MdLabels(lines) ==
    <<SubSeq(lines[1], 3, Len(lines[1]))>>
    \o [i \in 1..(Len(lines) - 2) |-> MdItemLabel(lines[i + 2])]

\* The labels of an ASCII output: the first line, and of every line holding a
\* connector what follows the connector and its space.
IsNodeLine(line) == \E i \in DOMAIN line : line[i] \in {TEE, CORNER}
AsciiItemLabel(line) ==
    LET k == CHOOSE i \in DOMAIN line :
                 line[i] \in {TEE, CORNER} /\ \A j \in 1..(i - 1) : line[j] \notin {TEE, CORNER}
    IN SubSeq(line, k + 4, Len(line))
AsciiLabels(lines) ==
    LET items == SelectSeq(Tail(lines), IsNodeLine)
    IN <<lines[1]>> \o [i \in 1..Len(items) |-> AsciiItemLabel(items[i])]

\* The labels of a document in pre-order, 'code title' for a node with a
\* "code" key and 'title' for one without.
DocLabelsCodePresent(raw) ==
    LET nodes == DocNodes(raw, 0)
    IN [i \in 1..Len(nodes) |->
          IF "code" \in DOMAIN nodes[i].doc
          THEN nodes[i].doc["code"] \o <<SP>> \o nodes[i].doc["title"]
          ELSE nodes[i].doc["title"]]

\* The same, 'code title' only for a node whose code is not the empty string.
DocLabelsCodeNonEmpty(raw) ==
    LET nodes == DocNodes(raw, 0)
    IN [i \in 1..Len(nodes) |->
          IF "code" \in DOMAIN nodes[i].doc /\ nodes[i].doc["code"] # <<>>
          THEN nodes[i].doc["code"] \o <<SP>> \o nodes[i].doc["title"]
          ELSE nodes[i].doc["title"]]

RenderersAgree ==
    MdLabels(SplitLines(export_markdown(heap, root)))
      = AsciiLabels(SplitLines(export_ascii(heap, root)))

\* C8 as stated: the labels read from the export_markdown output and from
\* the export_ascii output are the same sequence, the pre-order of the tree
\* with children in input order, each node once, labelled 'code title' when
\* a code is present and 'title' otherwise.
C8_LabelsCodePresent ==
    /\ TextWritten("markdown") =>
         /\ MdLabels(WrittenLines) = DocLabelsCodePresent(outline[1])
         /\ RenderersAgree
    /\ TextWritten("ascii") =>
         /\ AsciiLabels(WrittenLines) = DocLabelsCodePresent(outline[1])
         /\ RenderersAgree

\* C8 amended: the same, each node labelled 'code title' when a code is
\* present and not the empty string, and 'title' otherwise.
C8_LabelsCodeNonEmpty ==
    /\ TextWritten("markdown") =>
         /\ MdLabels(WrittenLines) = DocLabelsCodeNonEmpty(outline[1])
         /\ RenderersAgree
    /\ TextWritten("ascii") =>
         /\ AsciiLabels(WrittenLines) = DocLabelsCodeNonEmpty(outline[1])
         /\ RenderersAgree

\* export_ascii has written a tree of five nodes, some with a code, one with
\* an empty code, one with none.
C8_Witness ==
    /\ TextWritten("ascii")
    /\ Len(heap) = 5
    /\ \E n \in DOMAIN heap : Truthy(heap[n].code)
    /\ \E n \in DOMAIN heap : heap[n].code = Some(<<>>)
    /\ Len(AsciiLabels(WrittenLines)) = 5

\* The same for export_markdown.
MarkdownLabelsReached ==
    /\ TextWritten("markdown")
    /\ Len(heap) = 5
    /\ \E n \in DOMAIN heap : heap[n].code = Some(<<>>)

\* The input document was read and its root has no "title".
RootLacksTitle ==
    data_file.exists /\ data_file.valid /\ "title" \notin DOMAIN data_file.doc

Renderers == {"draw_mind_map", "export_markdown", "export_ascii"}

\* C9: when the root of the input document lacks a title, the run of main
\* ends in the error build_tree raises: no renderer is called, no file is
\* written, the success message is not printed, and build_tree is not
\* called again.
C9_MissingTitleEndsRun ==
    RootLacksTitle =>
        /\ pc \in {"parse_args", "ensure_output_dir", "load_outline", "build_tree", "raised"}
        /\ DOMAIN files = {}
        /\ stdout = <<>>
        /\ output_path = None
        /\ \A i \in DOMAIN calls : calls[i] \notin Renderers
        /\ Cardinality({ i \in DOMAIN calls : calls[i] = "build_tree" }) <= 1
        /\ pc = "raised" <=> "build_tree" \in Range(calls)
        /\ pc = "raised" => exc = Some([type |-> "KeyError", in |-> "build_tree"])

\* The run of main on a document whose root has children and no title has
\* ended in build_tree's KeyError.
C9_Witness ==
    /\ RootLacksTitle
    /\ raw_children(data_file.doc) # <<>>
    /\ pc = "raised"
    /\ exc = Some([type |-> "KeyError", in |-> "build_tree"])
====
